---- MODULE Spec2Model ----
(***************************************************************************)
(* Voice-profile store, single-flight job runner and streaming recognition *)
(* session of FSP Study Tools (openvoice_service.py, xtts_service.py,      *)
(* vosk_service.py).                                                       *)
(*                                                                         *)
(* The two profile services share one structure; the variable backend      *)
(* selects which of the two job bodies (TrainingQueue._train_voice or      *)
(* ProfileProcessor._process_profile) the behaviour follows.               *)
(***************************************************************************)
EXTENDS Integers, Sequences, FiniteSets, TLC

\* ------------------------------------------------------------------ bounds
\* client requests (create, delete, replace samples, start job, synthesize)
\* per behaviour
MaxCalls == 4
\* client requests to the recognition service per behaviour
MaxRequests == 5
\* characters of a text handed to the chunked synthesizer
MaxLen == 6
\* largest chunk limit tried
MaxChars == 4
\* words in a grammar request
MaxWords == 3

\* ------------------------------------------------------------ value spaces
Backends == {"openvoice", "xtts"}

\* Python None for profile ids / artifact paths (both falsy in the code).
None == 0

\* VoiceModelState / VoiceProfileState
PENDING == "pending"
PROCESSING == "processing"
READY == "ready"
FAILED == "failed"

NoError == "none"

\* at most one id and one thread per request
ProfileIds == 1..MaxCalls
JobIds == 1..MaxCalls

\* audio_samples lists a client may send (non-empty lists of existing paths)
SampleLists == {<<1>>, <<1, 2>>}

\* config.profiles_dir / profile_id / 'speaker_embedding.pth' (openvoice),
\* config.profiles_dir / profile_id / 'speaker_reference.wav' (xtts):
\* one artifact path per profile id.
ArtifactPath(p) == p

VARIABLES
    backend,            \* which service runs
    profiles,           \* VoiceProfileStore._profiles: id -> record
    next_id,            \* how many ids uuid4 has handed out
    current_task,       \* TrainingQueue._current_task / ProfileProcessor._current_task
    jobs,               \* background threads: job id -> [pc, pid, paths, err]
    njobs,              \* threads started so far
    model_initialized,  \* ModelCache._initialized
    dirs,               \* profile directories that exist on disk
    files,              \* artifact files that exist on disk
    response,           \* what the last client call returned
    calls,              \* client requests served so far
    profiles_file,      \* contents of profiles_dir / 'profiles.json'
    save_error,         \* the last _save_profiles logged "Failed to save profiles"
    write_errors,       \* whether writing profiles.json can fail in this run
    is_initialized,     \* vosk: the recognizer model is loaded
    is_recognizing,     \* vosk: session state flag (Listening when TRUE)
    stop_recognition_event, \* vosk: cancellation flag
    audio_queue,        \* vosk: the chunk queue the global name refers to
    latest_results,     \* vosk: result buffer
    current_grammar,    \* vosk: None or a set of words
    workers,            \* consumer threads: id -> [pc, grammar, chunk]
    nworkers,           \* consumer threads started so far
    pushed,             \* chunks received so far (chunk n is the n-th pushed)
    returned,           \* body of the last GET /results response
    updates,            \* buffer updates since the last start or read
    requests,           \* recognition requests served so far
    outputs,            \* output_<id>.wav files written by synthesize
    input_text,         \* the text handed to synthesize_long
    max_chars,          \* TTSSynthesizer.MAX_CHUNK_CHARS
    long,               \* the synthesize_long call: [pc, chunks, i, ...]
    audio_files,        \* the sample files handed to the audio pipeline
    combined,           \* what the prepare step of the job made of them
    checked,            \* what the job's check of the combined clip raised
    validation_result,  \* body of the last POST /validate-audio response
    grammar_words,      \* the words of the grammar request looked at
    writer              \* the update_profile call that is setting its fields

jobVars == <<backend, profiles, next_id, current_task, jobs, njobs,
             model_initialized, dirs, files, response, calls,
             profiles_file, save_error, write_errors>>

recVars == <<is_initialized, is_recognizing, stop_recognition_event, audio_queue,
             latest_results, current_grammar, workers, nworkers, pushed,
             returned, updates, requests>>

synVars == <<outputs, input_text, max_chars, long>>

\* arguments and results of the calls that are examined on their own
callVars == <<audio_files, combined, checked, validation_result, grammar_words, writer>>

vars == <<jobVars, recVars, synVars, callVars>>

\* -------------------------------------------------------------- ProfileStore
NewProfile(samples) ==
    [state |-> PENDING, audio_samples |-> samples, artifact |-> None,
     error |-> NoError, progress |-> 0]

\* VoiceProfileStore.update_profile: set the given fields of an existing
\* profile; a missing profile is left missing (returns None).
update_profile(profs, p, changes) ==
    IF p \in DOMAIN profs
    THEN [profs EXCEPT ![p] =
            [f \in DOMAIN profs[p] |->
                IF f \in DOMAIN changes THEN changes[f] ELSE profs[p][f]]]
    ELSE profs

\* profiles.json holding the given profiles
File(profs) == [readable |-> TRUE, profiles |-> profs]

\* profiles.json cut short: open(profiles_file, 'w') emptied it and the dump
\* did not complete
Corrupt == [readable |-> FALSE, profiles |-> <<>>]

\* _save_profiles: written; open() raised; json.dump or the write raised
SaveOutcomes == IF write_errors THEN {"ok", "open_error", "write_error"} ELSE {"ok"}

\* a save that writes the profile set of before the change
WrittenStale(outcome, profs) ==
    CASE outcome = "ok" -> File(profiles)
      [] outcome = "open_error" -> profiles_file
      [] outcome = "write_error" -> Corrupt

\* what _save_profiles leaves in the file
Written(outcome, profs) ==
    CASE outcome = "ok" -> File(profs)
      [] outcome = "open_error" -> profiles_file
      [] outcome = "write_error" -> Corrupt

\* VoiceProfileStore._save_profiles: a failure is logged, not raised
save_profiles(profs) ==
    \E outcome \in SaveOutcomes :
        /\ profiles_file' = Written(outcome, profs)
        /\ save_error' = (outcome # "ok")

\* VoiceProfileStore.update_profile under the lock: the fields are set and
\* the set is saved, when the profile exists
Update(p, changes) ==
    /\ profiles' = update_profile(profiles, p, changes)
    /\ IF p \in DOMAIN profiles
       THEN save_profiles(profiles')
       ELSE UNCHANGED <<profiles_file, save_error>>

\* VoiceProfileStore._load_profiles: a file that cannot be parsed is logged
\* and the store starts empty
load_profiles(file) == IF file.readable THEN file.profiles ELSE <<>>

IdleJob == [pc |-> "idle", pid |-> None, paths |-> <<>>, err |-> NoError, attempts |-> <<>>]

Running(j) == jobs[j].pc \notin {"idle", "done"}

InitJobs ==
    /\ backend \in Backends
    /\ profiles = <<>>
    /\ next_id = 0
    /\ current_task = None
    /\ jobs = [j \in JobIds |-> IdleJob]
    /\ njobs = 0
    /\ model_initialized = FALSE
    /\ dirs = {}
    /\ files = {}
    /\ response = [op |-> "none", ok |-> TRUE, msg |-> "none"]
    /\ calls = 0
    /\ profiles_file = File(<<>>)
    /\ save_error = FALSE

\* a client request is served
Call == calls < MaxCalls /\ calls' = calls + 1

\* POST /profiles -> VoiceProfileStore.create_profile
create_profile(samples) ==
    /\ Call
    /\ next_id' = next_id + 1
    /\ profiles' = (next_id + 1) :> NewProfile(samples) @@ profiles
    /\ save_profiles(profiles')
    /\ response' = [op |-> "create", ok |-> TRUE, msg |-> "created"]
    /\ UNCHANGED <<backend, write_errors, current_task, jobs, njobs, model_initialized, dirs, files, recVars, synVars, callVars>>

\* delete_profile that leaves the profile directory in place
delete_profile_keep_dir(p) ==
    /\ Call
    /\ IF p \in DOMAIN profiles
       THEN /\ files' = files \ {profiles[p].artifact}
            /\ UNCHANGED dirs
            /\ profiles' = [q \in DOMAIN profiles \ {p} |-> profiles[q]]
            /\ save_profiles(profiles')
            /\ response' = [op |-> "delete", ok |-> TRUE, msg |-> "deleted"]
       ELSE /\ response' = [op |-> "delete", ok |-> FALSE, msg |-> "not_found"]
            /\ UNCHANGED <<files, dirs, profiles, profiles_file, save_error>>
    /\ UNCHANGED <<backend, write_errors, next_id, current_task, jobs, njobs, model_initialized, recVars, synVars, callVars>>

\* DELETE /profiles/<id> -> VoiceProfileStore.delete_profile
delete_profile(p) ==
    /\ Call
    /\ IF p \in DOMAIN profiles
       THEN /\ files' = files \ {profiles[p].artifact, ArtifactPath(p)}
            /\ dirs' = dirs \ {p}
            /\ profiles' = [q \in DOMAIN profiles \ {p} |-> profiles[q]]
            /\ save_profiles(profiles')
            /\ response' = [op |-> "delete", ok |-> TRUE, msg |-> "deleted"]
       ELSE /\ response' = [op |-> "delete", ok |-> FALSE, msg |-> "not_found"]
            /\ UNCHANGED <<files, dirs, profiles, profiles_file, save_error>>
    /\ UNCHANGED <<backend, write_errors, next_id, current_task, jobs, njobs, model_initialized, recVars, synVars, callVars>>

\* PUT /profiles/<id>/samples
update_profile_samples(p, samples) ==
    /\ Call
    /\ IF p \in DOMAIN profiles
       THEN /\ Update(p,
                   [audio_samples |-> samples, state |-> PENDING, progress |-> 0])
            /\ response' = [op |-> "samples", ok |-> TRUE, msg |-> "updated"]
       ELSE /\ response' = [op |-> "samples", ok |-> FALSE, msg |-> "not_found"]
            /\ UNCHANGED <<profiles, profiles_file, save_error>>
    /\ UNCHANGED <<backend, write_errors, next_id, current_task, jobs, njobs, model_initialized, dirs, files, recVars, synVars, callVars>>

\* ModelCache.initialize (openvoice): True at once when already initialized;
\* otherwise the load succeeds or fails (checkpoints missing, load error).
InitializeOutcomes == IF model_initialized THEN {TRUE} ELSE {TRUE, FALSE}

\* ------------------------------------------------------------------ JobRunner
\* start_training without the busy test: every call claims the slot
start_training_unchecked(p, audio_paths, started) ==
    /\ current_task' = p
    /\ njobs' = njobs + 1
    /\ jobs' = [jobs EXCEPT ![njobs + 1] =
           [IdleJob EXCEPT !.pc = "begin", !.pid = p, !.paths = audio_paths]]
    /\ response' = [op |-> "train", ok |-> TRUE, msg |-> "started"]

\* start_training that stores the id before it tests the slot
start_training_overwriting(p, audio_paths, started) ==
    /\ current_task' = p
    /\ IF current_task # None
       THEN /\ response' = [op |-> "train", ok |-> FALSE, msg |-> "busy"]
            /\ UNCHANGED <<jobs, njobs>>
       ELSE /\ njobs' = njobs + 1
            /\ jobs' = [jobs EXCEPT ![njobs + 1] =
                   [IdleJob EXCEPT !.pc = "begin", !.pid = p, !.paths = audio_paths]]
            /\ response' = [op |-> "train", ok |-> TRUE, msg |-> "started"]

\* TrainingQueue.start_training / ProfileProcessor.start_processing, called by
\* POST /profiles/<id>/train (/process) with the profile's current samples.
\* started: whether threading.Thread.start() succeeded (it raises RuntimeError
\* when no thread can be created).
start_training(p, audio_paths, started) ==
    IF current_task # None
    THEN /\ response' = [op |-> "train", ok |-> FALSE, msg |-> "busy"]
         /\ UNCHANGED <<current_task, jobs, njobs>>
    ELSE /\ current_task' = p
         /\ IF started
            THEN /\ njobs' = njobs + 1
                 /\ jobs' = [jobs EXCEPT ![njobs + 1] =
                        [IdleJob EXCEPT !.pc = "begin", !.pid = p, !.paths = audio_paths]]
                 /\ response' = [op |-> "train", ok |-> TRUE, msg |-> "started"]
            ELSE /\ response' = [op |-> "train", ok |-> FALSE, msg |-> "exception"]
                 /\ UNCHANGED <<jobs, njobs>>

train_profile(p, started) ==
    /\ Call
    /\ IF p \in DOMAIN profiles
       THEN start_training(p, profiles[p].audio_samples, started)
       ELSE /\ response' = [op |-> "train", ok |-> FALSE, msg |-> "not_found"]
            /\ UNCHANGED <<current_task, jobs, njobs>>
    /\ UNCHANGED <<backend, write_errors, profiles, profiles_file, save_error, next_id, model_initialized, dirs, files, recVars, synVars, callVars>>

\* A stage of the job body raised: control goes to the except clause.
Raise(j, text) == jobs' = [jobs EXCEPT ![j].pc = "except", ![j].err = text]

Goto(j, pc) == jobs' = [jobs EXCEPT ![j].pc = pc]

\* first update of the job body: state = extracting/processing, progress = 10
job_begin(j) ==
    /\ jobs[j].pc = "begin"
    /\ Update(jobs[j].pid,
                        [state |-> PROCESSING, progress |-> 10])
    /\ Goto(j, IF backend = "openvoice" THEN "initialize" ELSE "prepare")
    /\ UNCHANGED <<backend, write_errors, next_id, current_task, njobs, model_initialized, dirs, files, response, calls, recVars, synVars, callVars>>

\* openvoice: model_cache.initialize(), then progress = 30
job_initialize(j) ==
    /\ jobs[j].pc = "initialize"
    /\ \E ok \in InitializeOutcomes :
        IF ok
        THEN /\ model_initialized' = TRUE
             /\ Update(jobs[j].pid, [progress |-> 30])
             /\ Goto(j, "prepare")
        ELSE /\ Raise(j, "init_error")
             /\ UNCHANGED <<model_initialized, profiles, profiles_file, save_error>>
    /\ UNCHANGED <<backend, write_errors, next_id, current_task, njobs, dirs, files, response, calls, recVars, synVars, callVars>>

\* _prepare_audio (openvoice) / _prepare_reference_audio (xtts), then for xtts
\* progress = 50. The profile directory is made first; xtts writes the
\* reference clip, which is the artifact, here.
job_prepare(j) ==
    /\ jobs[j].pc = "prepare"
    /\ dirs' = dirs \cup {jobs[j].pid}
    /\ \E loaded \in BOOLEAN :
        IF loaded
        THEN /\ Goto(j, "validate")
             /\ IF backend = "xtts"
                THEN /\ files' = files \cup {ArtifactPath(jobs[j].pid)}
                     /\ Update(jobs[j].pid, [progress |-> 50])
                ELSE UNCHANGED <<files, profiles, profiles_file, save_error>>
        ELSE /\ Raise(j, "load_error")
             /\ UNCHANGED <<files, profiles, profiles_file, save_error>>
    /\ UNCHANGED <<backend, write_errors, next_id, current_task, njobs, model_initialized, response, calls, recVars, synVars, callVars>>

\* what the validation of the combined clip can raise
ValidationErrors ==
    IF backend = "openvoice" THEN {"load_error", "silent"}
    ELSE {"load_error", "silent", "too_short"}

\* openvoice: inline check in _train_voice, then progress = 50;
\* xtts: _validate_audio, then progress = 80
job_validate(j) ==
    /\ jobs[j].pc = "validate"
    /\ \/ /\ Update(jobs[j].pid,
                  [progress |-> IF backend = "openvoice" THEN 50 ELSE 80])
          /\ Goto(j, IF backend = "openvoice" THEN "extract" ELSE "save")
       \/ /\ \E e \in ValidationErrors : Raise(j, e)
          /\ UNCHANGED <<profiles, profiles_file, save_error>>
    /\ UNCHANGED <<backend, write_errors, next_id, current_task, njobs, model_initialized, dirs, files, response, calls, recVars, synVars, callVars>>

\* se_extractor.get_se: "ok", AssertionError "input audio is too short", or
\* any other failure.
ExtractOutcomes == {"ok", "too_short", "other"}

\* the extraction retried after any failure of the gated attempt
get_se_attempts_any(first, retry) ==
    IF first # "ok"
    THEN <<[vad |-> TRUE, outcome |-> first], [vad |-> FALSE, outcome |-> retry]>>
    ELSE <<[vad |-> TRUE, outcome |-> first]>>

\* openvoice: the calls of se_extractor.get_se: with VAD first, and once more
\* without VAD only after the too-short assertion
get_se_attempts(first, retry) ==
    IF first = "too_short"
    THEN <<[vad |-> TRUE, outcome |-> first], [vad |-> FALSE, outcome |-> retry]>>
    ELSE <<[vad |-> TRUE, outcome |-> first]>>

\* TRUE when an embedding results: the last call returned
ExtractSucceeds(first, retry) ==
    LET made == get_se_attempts(first, retry)
    IN  made[Len(made)].outcome = "ok"

\* openvoice: extract the embedding, then progress = 80
job_extract(j) ==
    /\ jobs[j].pc = "extract"
    /\ \E first \in ExtractOutcomes, retry \in ExtractOutcomes :
        IF ExtractSucceeds(first, retry)
        THEN /\ Update(jobs[j].pid, [progress |-> 80])
             /\ jobs' = [jobs EXCEPT ![j].pc = "save",
                                     ![j].attempts = get_se_attempts(first, retry)]
        ELSE /\ jobs' = [jobs EXCEPT ![j].pc = "except", ![j].err = "extract_error",
                                     ![j].attempts = get_se_attempts(first, retry)]
             /\ UNCHANGED <<profiles, profiles_file, save_error>>
    /\ UNCHANGED <<backend, write_errors, next_id, current_task, njobs, model_initialized, dirs, files, response, calls, recVars, synVars, callVars>>

\* the ready update with a progress value below the one before it
ReadyChangesLow(p) == [state |-> READY, artifact |-> ArtifactPath(p), progress |-> 70]

\* the update that makes the profile ready
ReadyChanges(p) == [state |-> READY, artifact |-> ArtifactPath(p), progress |-> 100]

\* openvoice: os.makedirs + torch.save(embedding), then the ready update;
\* xtts: the ready update with the clip written by the prepare step.
job_save(j) ==
    /\ jobs[j].pc = "save"
    /\ IF backend = "openvoice"
       THEN /\ dirs' = dirs \cup {jobs[j].pid}
            /\ \E saved \in BOOLEAN :
                IF saved
                THEN /\ files' = files \cup {ArtifactPath(jobs[j].pid)}
                     /\ Update(jobs[j].pid, ReadyChanges(jobs[j].pid))
                     /\ Goto(j, "finally")
                ELSE /\ Raise(j, "save_error")
                     /\ UNCHANGED <<files, profiles, profiles_file, save_error>>
       ELSE /\ Update(jobs[j].pid, ReadyChanges(jobs[j].pid))
            /\ Goto(j, "finally")
            /\ UNCHANGED <<dirs, files>>
    /\ UNCHANGED <<backend, write_errors, next_id, current_task, njobs, model_initialized, response, calls, recVars, synVars, callVars>>

\* the except update without the progress reset
FailedChangesKeep(text) == [state |-> FAILED, error |-> text]

\* the update of the except clause
FailedChanges(text) == [state |-> FAILED, error |-> text, progress |-> 0]

\* except Exception as e: state = failed, error = str(e), progress = 0
job_except(j) ==
    /\ jobs[j].pc = "except"
    /\ Update(jobs[j].pid, FailedChanges(jobs[j].err))
    /\ Goto(j, "finally")
    /\ UNCHANGED <<backend, write_errors, next_id, current_task, njobs, model_initialized, dirs, files, response, calls, recVars, synVars, callVars>>

\* a finally clause that does not release
ReleasedSlotKept(slot) == slot

\* what the finally clause leaves in the slot
ReleasedSlot(slot) == None

\* finally: with self._lock: self._current_task = None
job_finally(j) ==
    /\ jobs[j].pc = "finally"
    /\ current_task' = ReleasedSlot(current_task)
    /\ jobs' = [jobs EXCEPT ![j] = [IdleJob EXCEPT !.pc = "done"]]
    /\ UNCHANGED <<backend, write_errors, profiles, profiles_file, save_error, next_id, njobs, model_initialized, dirs, files, response, calls, recVars, synVars, callVars>>

JobStep(j) ==
    \/ job_begin(j)
    \/ job_initialize(j)
    \/ job_prepare(j)
    \/ job_validate(j)
    \/ job_extract(j)
    \/ job_save(j)
    \/ job_except(j)
    \/ job_finally(j)

\* The process is stopped and started again: the store is loaded from
\* profiles.json, the slot is empty, no job thread and no loaded model is left.
restart ==
    /\ Call
    /\ profiles' = load_profiles(profiles_file)
    /\ current_task' = None
    /\ jobs' = [j \in JobIds |->
                    IF Running(j) THEN [IdleJob EXCEPT !.pc = "done"] ELSE jobs[j]]
    /\ model_initialized' = FALSE
    /\ save_error' = FALSE
    /\ response' = [op |-> "restart", ok |-> TRUE, msg |-> "started"]
    /\ UNCHANGED <<backend, write_errors, next_id, njobs, dirs, files, profiles_file, recVars, synVars, callVars>>

NextJobs ==
    \/ \E s \in SampleLists : create_profile(s)
    \/ \E p \in ProfileIds : delete_profile(p)
    \/ \E p \in ProfileIds, s \in SampleLists : update_profile_samples(p, s)
    \/ \E p \in ProfileIds, started \in BOOLEAN : train_profile(p, started)
    \/ \E j \in JobIds : JobStep(j)

\* ------------------------------------------------- StreamingRecognitionEngine
\* at most one consumer thread per request
WorkerIds == 1..MaxRequests

\* a client request to the recognition service is served
Request == requests < MaxRequests /\ requests' = requests + 1

\* current_grammar = None: free-form recognition
NoGrammar == <<>>

\* the fillers list of set_grammar
Fillers ==
    {"the", "a", "an", "and", "or", "but", "in", "on", "at", "to", "for",
     "of", "with", "by", "from", "is", "are", "was", "were", "be", "been",
     "have", "has", "had", "do", "does", "did", "will", "would", "could",
     "should", "may", "might", "must", "shall", "can", "it", "its", "this",
     "that", "these", "those", "i", "you", "he", "she", "we", "they", "my",
     "your", "his", "her", "our", "their", "me", "him", "us", "them"}

\* words a client may send; w.lower().strip() of each word used
Lowered(w) ==
    CASE w = "Apple" -> "apple"
      [] w = " apple" -> "apple"
      [] w = "The" -> "the"
      [] w = " " -> ""
      [] w = "Bee " -> "bee"
      [] OTHER -> w

WordLists == {<<>>, <<"Apple", " apple", "The", " ">>}

Range(seq) == {seq[i] : i \in 1..Len(seq)}

\* the words of the caller that are not blank, lowered and stripped
UniqueWords(words) == {Lowered(w) : w \in {x \in Range(words) : Lowered(x) # ""}}

\* set_grammar without the last list(set(...)): the fillers are appended
\* to the caller's words and the list is stored as it is
set_grammar_extended(words) ==
    IF words # <<>>
    THEN [w \in UniqueWords(words) \cup Fillers |->
            IF w \in UniqueWords(words) \cap Fillers THEN 2 ELSE 1]
    ELSE NoGrammar

\* set_grammar(words): the value current_grammar takes, a list held as the
\* number of times each word is in it (the order of list(set(...)) is not
\* specified). An empty or missing list clears it; blank words are dropped
\* before the fillers are added.
set_grammar(words) ==
    IF words # <<>>
    THEN [w \in UniqueWords(words) \cup Fillers |-> 1]
    ELSE NoGrammar

\* a consumer thread: where it is, the grammar its recognizer was built with,
\* the chunk it holds and, until it builds its recognizer, the grammar that
\* was in force when the start call that spawned it returned
\* session: the start call whose queue the chunk in hand was taken from
IdleWorker == [pc |-> "idle", grammar |-> NoGrammar, chunk |-> 0, at_start |-> NoGrammar,
               session |-> 0]

InitRec ==
    /\ is_initialized \in BOOLEAN   \* main(): --auto-init loads the model at startup
    /\ is_recognizing = FALSE
    /\ stop_recognition_event = FALSE
    /\ audio_queue = <<>>
    /\ latest_results = <<>>
    /\ current_grammar = NoGrammar
    /\ workers = [w \in WorkerIds |-> IdleWorker]
    /\ nworkers = 0
    /\ pushed = 0
    /\ returned = <<>>
    /\ updates = <<>>
    /\ requests = 0

\* POST /initialize -> initialize_model: the load succeeds or fails
initialize_model ==
    /\ Request
    /\ ~is_initialized
    /\ \E ok \in BOOLEAN : is_initialized' = ok
    /\ UNCHANGED <<is_recognizing, stop_recognition_event, audio_queue, latest_results,
                   current_grammar, workers, nworkers, pushed, returned, updates, jobVars, synVars, callVars>>

\* POST /grammar, DELETE /grammar -> set_grammar
set_grammar_endpoint(words) ==
    /\ Request
    /\ current_grammar' = set_grammar(words)
    /\ UNCHANGED <<is_initialized, is_recognizing, stop_recognition_event, audio_queue,
                   latest_results, workers, nworkers, pushed, returned, updates, jobVars, synVars, callVars>>

\* start_streaming_recognition(sample_rate, grammar), entered with in_force as
\* current_grammar; given = FALSE stands for grammar = None. The function
\* returns once the thread is started: is_recognizing is set by the thread.
start_streaming_recognition(given, grammar, in_force) ==
    IF is_recognizing
    THEN /\ current_grammar' = in_force
         /\ UNCHANGED <<stop_recognition_event, audio_queue, latest_results,
                        workers, nworkers, updates>>
    ELSE /\ current_grammar' = IF given THEN set_grammar(grammar) ELSE in_force
         /\ stop_recognition_event' = FALSE
         /\ audio_queue' = <<>>
         /\ latest_results' = <<>>
         /\ updates' = <<>>
         /\ nworkers' = nworkers + 1
         /\ workers' = [workers EXCEPT ![nworkers + 1] =
                [IdleWorker EXCEPT !.pc = "created",
                                   !.at_start = IF given THEN set_grammar(grammar) ELSE in_force]]

\* POST /start -> start_recognition: use_grammar = false clears the grammar
\* and discards the grammar argument before start_streaming_recognition runs
start_recognition(use_grammar, given, grammar) ==
    /\ Request
    /\ is_initialized
    /\ IF use_grammar
       THEN start_streaming_recognition(given, grammar, current_grammar)
       ELSE start_streaming_recognition(FALSE, grammar, set_grammar(<<>>))
    /\ UNCHANGED <<is_initialized, is_recognizing, pushed, returned, jobVars, synVars, callVars>>

\* stop_streaming_recognition: the join ends when the thread does or after 2 s
stop_streaming_recognition ==
    /\ Request
    /\ stop_recognition_event' = TRUE
    /\ is_recognizing' = FALSE
    /\ UNCHANGED <<is_initialized, audio_queue, latest_results, current_grammar,
                   workers, nworkers, pushed, returned, updates, jobVars, synVars, callVars>>

\* add_audio_chunk: the queue after the call
add_audio_chunk(queue, audio_data) ==
    IF is_recognizing THEN Append(queue, audio_data) ELSE queue

\* POST /audio that enqueues whatever the session state is
receive_audio_unchecked ==
    /\ Request
    /\ pushed' = pushed + 1
    /\ audio_queue' = Append(audio_queue, pushed + 1)
    /\ UNCHANGED <<is_initialized, is_recognizing, stop_recognition_event, latest_results,
                   current_grammar, workers, nworkers, returned, updates, jobVars, synVars, callVars>>

\* POST /audio -> receive_audio: 400 when not recognizing, else add_audio_chunk
receive_audio ==
    /\ Request
    /\ pushed' = pushed + 1
    /\ IF ~is_recognizing
       THEN UNCHANGED audio_queue
       ELSE audio_queue' = add_audio_chunk(audio_queue, pushed + 1)
    /\ UNCHANGED <<is_initialized, is_recognizing, stop_recognition_event, latest_results,
                   current_grammar, workers, nworkers, returned, updates, jobVars, synVars, callVars>>

\* what GET /results leaves in the buffer: the last partial entry, if any
KeptResults(results) ==
    LET partials == SelectSeq(results, LAMBDA r : r.type = "partial")
    IN  IF partials = <<>> THEN <<>> ELSE <<partials[Len(partials)]>>

\* GET /results -> get_results
get_results ==
    /\ Request
    /\ returned' = latest_results
    /\ latest_results' = KeptResults(latest_results)
    /\ updates' = <<>>
    /\ UNCHANGED <<is_initialized, is_recognizing, stop_recognition_event, audio_queue,
                   current_grammar, workers, nworkers, pushed, jobVars, synVars, callVars>>

\* recognition_worker, up to the loop: build the recognizer from the grammar
\* in force now, then is_recognizing = True. built = FALSE: the constructor raised.
worker_create(w) ==
    /\ workers[w].pc = "created"
    /\ \E built \in BOOLEAN :
        IF built
        THEN /\ workers' = [workers EXCEPT ![w].pc = "loop", ![w].grammar = current_grammar,
                                            ![w].at_start = NoGrammar]
             /\ is_recognizing' = TRUE
        ELSE /\ workers' = [workers EXCEPT ![w].pc = "finally", ![w].at_start = NoGrammar]
             /\ UNCHANGED is_recognizing
    /\ UNCHANGED <<is_initialized, stop_recognition_event, audio_queue, latest_results,
                   current_grammar, nworkers, pushed, returned, updates, requests, jobVars, synVars, callVars>>

\* one test of the loop condition and one audio_queue.get(timeout=0.1)
worker_poll(w) ==
    /\ workers[w].pc = "loop"
    /\ IF stop_recognition_event
       THEN /\ workers' = [workers EXCEPT ![w].pc = "finally"]
            /\ UNCHANGED audio_queue
       ELSE /\ audio_queue # <<>>
            /\ workers' = [workers EXCEPT ![w].pc = "recognize", ![w].chunk = Head(audio_queue),
                                           ![w].session = nworkers]
            /\ audio_queue' = Tail(audio_queue)
    /\ UNCHANGED <<is_initialized, is_recognizing, stop_recognition_event, latest_results,
                   current_grammar, nworkers, pushed, returned, updates, requests, jobVars, synVars, callVars>>

\* a final result that takes the place of a trailing partial
AppendFinalCoalesced(results, text) ==
    IF results # <<>> /\ results[Len(results)].type = "partial"
    THEN [results EXCEPT ![Len(results)] = [type |-> "final", text |-> text]]
    ELSE Append(results, [type |-> "final", text |-> text])

\* the buffer after a final result with text
AppendFinal(results, text) == Append(results, [type |-> "final", text |-> text])

\* a partial result that is appended whatever the buffer ends with
PutPartialAppended(results, text) ==
    Append(results, [type |-> "partial", text |-> text])

\* the buffer after a partial result with text
PutPartial(results, text) ==
    IF results # <<>> /\ results[Len(results)].type = "partial"
    THEN [results EXCEPT ![Len(results)] = [type |-> "partial", text |-> text]]
    ELSE Append(results, [type |-> "partial", text |-> text])

\* AcceptWaveform on the popped chunk: a final or a partial result, with text
\* (the chunk's number) or without
RecognizerOutcomes == {"final", "partial", "no_text"}

worker_recognize(w) ==
    /\ workers[w].pc = "recognize"
    /\ \E kind \in RecognizerOutcomes :
        /\ latest_results' =
             CASE kind = "final" -> AppendFinal(latest_results, workers[w].chunk)
               [] kind = "partial" -> PutPartial(latest_results, workers[w].chunk)
               [] OTHER -> latest_results
        /\ updates' = IF kind = "no_text" THEN updates
                      ELSE Append(updates, [type |-> kind, text |-> workers[w].chunk])
    /\ workers' = [workers EXCEPT ![w].pc = "loop", ![w].chunk = 0, ![w].session = 0]
    /\ UNCHANGED <<is_initialized, is_recognizing, stop_recognition_event, audio_queue,
                   current_grammar, nworkers, pushed, returned, requests, jobVars, synVars, callVars>>

\* finally: is_recognizing = False
worker_finally(w) ==
    /\ workers[w].pc = "finally"
    /\ is_recognizing' = FALSE
    /\ workers' = [workers EXCEPT ![w] = [IdleWorker EXCEPT !.pc = "done"]]
    /\ UNCHANGED <<is_initialized, stop_recognition_event, audio_queue, latest_results,
                   current_grammar, nworkers, pushed, returned, updates, requests, jobVars, synVars, callVars>>

NextRec ==
    \/ initialize_model
    \/ \E words \in WordLists : set_grammar_endpoint(words)
    \/ \E use_grammar, given \in BOOLEAN, words \in WordLists :
            start_recognition(use_grammar, given, words)
    \/ stop_streaming_recognition
    \/ receive_audio
    \/ get_results
    \/ \E w \in WorkerIds : worker_create(w)
    \/ \E w \in WorkerIds : worker_poll(w)
    \/ \E w \in WorkerIds : worker_recognize(w)
    \/ \E w \in WorkerIds : worker_finally(w)

\* ---------------------------------------------------------- ChunkedSynthesizer
\* characters of a text: a letter, a sentence end, a white-space character
Alphabet == {"a", ".", " "}

\* the characters of the class [.!?]
SentenceEnds == {".", "!", "?"}

\* the characters \s matches and str.strip() removes
WhiteSpace == {" "}

\* texts a client may send, as sequences of characters
Texts == UNION {[1..n -> Alphabet] : n \in 0..MaxLen}

\* values of MAX_CHUNK_CHARS that a text of MaxLen characters can exceed
ChunkLimits == 1..MaxChars

RECURSIVE LStrip(_)
LStrip(str) ==
    IF str # <<>> /\ Head(str) \in WhiteSpace THEN LStrip(Tail(str)) ELSE str

RECURSIVE RStrip(_)
RStrip(str) ==
    IF str # <<>> /\ str[Len(str)] \in WhiteSpace
    THEN RStrip(SubSeq(str, 1, Len(str) - 1))
    ELSE str

\* str.strip()
Strip(str) == RStrip(LStrip(str))

\* first index from i on that holds no white space (Len + 1 if none)
RECURSIVE SkipSpace(_, _)
SkipSpace(str, i) ==
    IF i <= Len(str) /\ str[i] \in WhiteSpace THEN SkipSpace(str, i + 1) ELSE i

\* re.split(r'(?<=[.!?])\s+', str) from index i on, the current piece
\* starting at index start: a match begins at a white-space character that
\* follows a sentence end and takes the whole white-space run
RECURSIVE SplitFrom(_, _, _)
SplitFrom(str, start, i) ==
    IF i > Len(str)
    THEN <<SubSeq(str, start, Len(str))>>
    ELSE IF i > 1 /\ str[i] \in WhiteSpace /\ str[i - 1] \in SentenceEnds
         THEN <<SubSeq(str, start, i - 1)>>
                 \o SplitFrom(str, SkipSpace(str, i), SkipSpace(str, i))
         ELSE SplitFrom(str, start, i + 1)

\* [s.strip() for s in pieces if s.strip()]
RECURSIVE StripAll(_)
StripAll(pieces) ==
    IF pieces = <<>> THEN <<>>
    ELSE IF Strip(Head(pieces)) # <<>>
         THEN <<Strip(Head(pieces))>> \o StripAll(Tail(pieces))
         ELSE StripAll(Tail(pieces))

\* TTSSynthesizer._split_into_sentences
split_into_sentences(str) == StripAll(SplitFrom(Strip(str), 1, 1))

\* the loop of _chunk_text over the sentences not yet packed
RECURSIVE Pack(_, _, _, _)
Pack(sentences, chunks, current_chunk, limit) ==
    IF sentences = <<>>
    THEN IF current_chunk # <<>> THEN Append(chunks, Strip(current_chunk)) ELSE chunks
    ELSE LET sentence == Head(sentences)
         IN  IF Len(current_chunk) + Len(sentence) + 1 > limit /\ current_chunk # <<>>
             THEN Pack(Tail(sentences), Append(chunks, Strip(current_chunk)), sentence, limit)
             ELSE Pack(Tail(sentences), chunks,
                       IF current_chunk # <<>>
                       THEN Strip(current_chunk \o <<" ">> \o sentence)
                       ELSE sentence,
                       limit)

\* _chunk_text whose length test forgets the separating space
chunk_text_off_by_one(str, limit) ==
    LET chunks == Pack(split_into_sentences(str), <<>>, <<>>, limit + 1)
    IN  IF chunks # <<>> THEN chunks ELSE <<str>>

\* _chunk_text that forgets the chunk still open when the sentences run out
chunk_text_no_tail(str, limit) ==
    LET chunks == Pack(split_into_sentences(str), <<>>, <<>>, limit)
        kept == SubSeq(chunks, 1, Len(chunks) - 1)
    IN  IF kept # <<>> THEN kept ELSE <<str>>

\* TTSSynthesizer._chunk_text with MAX_CHUNK_CHARS = limit
chunk_text(str, limit) ==
    LET chunks == Pack(split_into_sentences(str), <<>>, <<>>, limit)
    IN  IF chunks # <<>> THEN chunks ELSE <<str>>

\* the three tests at the head of synthesize, without the state test
ProfileUsableAnyState(p) ==
    /\ p \in DOMAIN profiles
    /\ profiles[p].artifact # None
    /\ profiles[p].artifact \in files

\* the three tests at the head of synthesize: the profile exists, is ready,
\* and its artifact path is set and names an existing file
ProfileUsable(p) ==
    /\ p \in DOMAIN profiles
    /\ profiles[p].state = READY
    /\ profiles[p].artifact # None
    /\ profiles[p].artifact \in files

SynthesisFailed == [op |-> "synthesize", ok |-> FALSE, msg |-> "failed"]

\* POST /synthesize -> TTSSynthesizer.synthesize: None (answered 'Synthesis
\* failed') when a test fails, the models do not load or the generation
\* raises; else the path of a new output file
synthesize(p) ==
    /\ Call
    /\ IF ProfileUsable(p)
       THEN \E ok \in InitializeOutcomes, generated \in BOOLEAN :
              /\ model_initialized' = (model_initialized \/ ok)
              /\ IF ok /\ generated
                 THEN /\ outputs' = outputs + 1
                      /\ response' = [op |-> "synthesize", ok |-> TRUE, msg |-> "audio"]
                 ELSE /\ response' = SynthesisFailed
                      /\ UNCHANGED outputs
       ELSE /\ response' = SynthesisFailed
            /\ UNCHANGED <<model_initialized, outputs>>
    /\ UNCHANGED <<backend, write_errors, profiles, profiles_file, save_error, next_id, current_task, jobs, njobs, dirs, files, input_text, max_chars, long, recVars, callVars>>

\* AudioSegment.silent(duration=200) (xtts: 150) in a list of segments
SILENCE == 0

\* synthesize_long returned None
NoResult == [ok |-> FALSE, audio |-> <<>>, chunks |-> 0]

\* a synthesize_long call: the chunks, the loop index, audio_segments (chunk k's
\* audio is k), temp_files, the outcome of each chunk so far and the result
IdleLong ==
    [pc |-> "idle", chunks |-> <<>>, i |-> 0, audio_segments |-> <<>>,
     temp_files |-> <<>>, outcomes |-> <<>>, result |-> NoResult]

\* one chunk: synthesize returns a path and the file loads, synthesize returns
\* None, or AudioSegment.from_wav raises on the file
ChunkOutcomes == {"ok", "none", "load_error"}

\* TTSSynthesizer.synthesize_long, up to the loop; a single chunk is
\* synthesized from the whole text and returned as it is
synthesize_long ==
    /\ long.pc = "idle"
    /\ LET chunks == chunk_text(input_text, max_chars)
       IN  IF Len(chunks) = 1
           THEN \E outcome \in ChunkOutcomes :
                  long' = [long EXCEPT !.pc = "done", !.chunks = chunks,
                              !.outcomes = <<outcome>>,
                              !.result = IF outcome = "ok"
                                         THEN [ok |-> TRUE, audio |-> <<1>>, chunks |-> 1]
                                         ELSE NoResult]
           ELSE long' = [long EXCEPT !.pc = "loop", !.chunks = chunks, !.i = 1]
    /\ UNCHANGED <<outputs, input_text, max_chars, jobVars, recVars, callVars>>

\* one round of the loop over the chunks; an exception leaves the loop for
\* the except clause of synthesize_long, which returns None
long_chunk ==
    /\ long.pc = "loop"
    /\ long.i <= Len(long.chunks)
    /\ \E outcome \in ChunkOutcomes :
        long' =
          CASE outcome = "ok" ->
                 [long EXCEPT !.i = @ + 1, !.outcomes = Append(@, outcome),
                              !.temp_files = Append(@, long.i),
                              !.audio_segments = @ \o <<long.i, SILENCE>>]
            [] outcome = "none" ->
                 [long EXCEPT !.i = @ + 1, !.outcomes = Append(@, outcome)]
            [] OTHER ->
                 [long EXCEPT !.pc = "done", !.outcomes = Append(@, outcome),
                              !.temp_files = Append(@, long.i), !.result = NoResult]
    /\ UNCHANGED <<outputs, input_text, max_chars, jobVars, recVars, callVars>>

\* after the loop: no segment raises; else concatenate, export, remove the
\* chunk files and return the path with the number of chunks
long_finish ==
    /\ long.pc = "loop"
    /\ long.i > Len(long.chunks)
    /\ long' = [long EXCEPT !.pc = "done", !.temp_files = <<>>,
                  !.result = IF long.audio_segments = <<>>
                             THEN NoResult
                             ELSE [ok |-> TRUE, audio |-> long.audio_segments,
                                   chunks |-> Len(long.chunks)]]
    /\ UNCHANGED <<outputs, input_text, max_chars, jobVars, recVars, callVars>>

NextOne ==
    \/ NextJobs
    \/ \E p \in ProfileIds : synthesize(p)

NextLong ==
    \/ synthesize_long
    \/ long_chunk
    \/ long_finish

\* ----------------------------------------------------------- AudioPreprocessor
\* Durations are counted in tenths of a second.
\* files per request
MaxSamples == 2

\* audio.duration_seconds < 3
MIN_DURATION == 30
\* min_speech_required = 5.0 (openvoice /validate-audio)
min_speech_required == 50
\* min_duration = 6.0 (xtts /validate-audio)
min_duration == 60
\* AudioSegment.silent(duration=500) (openvoice), duration=300 (xtts)
SilenceGap == IF backend = "openvoice" THEN 5 ELSE 3
\* max_duration_ms = 30000 (xtts)
max_duration == 300

\* _analyze_speech_duration raised
VadError == -1

\* A file that cannot be analysed: missing, empty or not decodable.
Unreadable ==
    [loads |-> FALSE, max |-> 0, quiet |-> TRUE, duration |-> 0, speech |-> VadError]

\* Decodable files: peak amplitude (0, or 1 for any non-zero peak), whether
\* dBFS < -50, duration, and what voice-activity detection finds in the file.
\* A file whose peak is zero has dBFS = -inf.
Readable ==
    {[loads |-> TRUE, max |-> 0, quiet |-> TRUE, duration |-> d, speech |-> 0] :
        d \in {20, 30}}
    \cup
    {f \in [loads : {TRUE}, max : {1}, quiet : BOOLEAN, duration : {20, 30},
            speech : {VadError, 20, 30}] : f.speech <= f.duration}

AudioFiles == {Unreadable} \cup Readable

Batches == UNION {[1..n -> AudioFiles] : n \in 0..MaxSamples}

\* the silence segment between two clips in the parts of a combined clip
GAP == 0

RECURSIVE CombineFrom(_, _, _)
\* the loop of the multi-file branch: for i, path in enumerate(audio_paths)
CombineFrom(paths, i, parts) ==
    IF i > Len(paths) THEN parts
    ELSE CombineFrom(paths, i + 1,
            IF paths[i].loads
            THEN (IF i > 1 THEN Append(parts, GAP) ELSE parts) \o <<i>>
            ELSE parts)

RECURSIVE PartsDuration(_, _)
PartsDuration(paths, parts) ==
    IF parts = <<>> THEN 0
    ELSE (IF Head(parts) = GAP THEN SilenceGap ELSE paths[Head(parts)].duration)
         + PartsDuration(paths, Tail(parts))

\* the AudioSegment made of the given parts
Clip(paths, parts) ==
    [raised |-> FALSE,
     parts |-> parts,
     max |-> IF \E k \in 1..Len(parts) : parts[k] # GAP /\ paths[parts[k]].max > 0
             THEN 1 ELSE 0,
     duration |-> PartsDuration(paths, parts)]

NoClip == [raised |-> TRUE, parts |-> <<>>, max |-> 0, duration |-> 0]

\* the multi-file branch with the load of each file unguarded
prepare_audio_strict(paths) ==
    IF \A i \in 1..Len(paths) : paths[i].loads
    THEN Clip(paths, CombineFrom(paths, 1, <<>>))
    ELSE NoClip

\* _prepare_audio (openvoice), and _prepare_reference_audio (xtts) up to the
\* trim: one file is loaded unguarded; of several, those that load are
\* joined, a gap in front of each but the first of the list.
prepare_audio(paths) ==
    IF Len(paths) = 1
    THEN IF paths[1].loads THEN Clip(paths, <<1>>) ELSE NoClip
    ELSE Clip(paths, CombineFrom(paths, 1, <<>>))

\* xtts: audio[:max_duration_ms]
Trimmed(clip) ==
    IF backend = "xtts" /\ clip.duration > max_duration
    THEN [clip EXCEPT !.duration = max_duration]
    ELSE clip

\* the check of the combined clip in the job body: audio_info.max == 0 in
\* _train_voice (openvoice); _validate_audio (xtts). Quiet audio is logged.
check_audio(clip) ==
    IF clip.max = 0 THEN "silent"
    ELSE IF backend = "xtts" /\ clip.duration < MIN_DURATION THEN "too_short"
    ELSE "ok"

\* _validate_single_audio
validate_single_audio(f) ==
    LET result == [valid |-> FALSE, duration |-> 0, speech_duration |-> 0,
                   is_quiet |-> FALSE, error |-> "none"]
    IN  IF ~f.loads THEN [result EXCEPT !.error = "unreadable"]
        ELSE IF f.max = 0
        THEN [result EXCEPT !.duration = f.duration, !.error = "silent"]
        ELSE IF f.duration < MIN_DURATION
        THEN [result EXCEPT !.duration = f.duration, !.is_quiet = f.quiet,
                            !.error = "too_short"]
        ELSE IF backend = "xtts"
        THEN [result EXCEPT !.duration = f.duration, !.is_quiet = f.quiet,
                            !.valid = TRUE]
        ELSE IF f.speech = VadError
        THEN [result EXCEPT !.duration = f.duration, !.is_quiet = f.quiet,
                            !.speech_duration = (f.duration * 7) \div 10,
                            !.valid = TRUE]
        ELSE IF f.speech < MIN_DURATION
        THEN [result EXCEPT !.duration = f.duration, !.is_quiet = f.quiet,
                            !.speech_duration = f.speech, !.error = "no_speech"]
        ELSE [result EXCEPT !.duration = f.duration, !.is_quiet = f.quiet,
                            !.speech_duration = f.speech, !.valid = TRUE]

RECURSIVE SumValid(_, _)
\* total_duration / total_speech_duration: added up over the valid results
SumValid(results, field) ==
    IF results = <<>> THEN 0
    ELSE (IF Head(results).valid THEN Head(results)[field] ELSE 0)
         + SumValid(Tail(results), field)

\* results of the loop of validate_audio: one per path
Results(paths) == [i \in 1..Len(paths) |-> validate_single_audio(paths[i])]

NoValidation == [status |-> 0, valid |-> FALSE, files |-> <<>>,
                 total_duration |-> 0, total_speech_duration |-> 0]

\* POST /validate-audio
validate_audio ==
    /\ validation_result = NoValidation
    /\ validation_result' =
        IF audio_files = <<>>
        THEN [NoValidation EXCEPT !.status = 400]
        ELSE LET results == Results(audio_files)
                 all_valid == \A i \in 1..Len(results) : results[i].valid
                 total_duration == SumValid(results, "duration")
                 total_speech_duration ==
                     IF backend = "openvoice"
                     THEN SumValid(results, "speech_duration") ELSE 0
             IN  [status |-> 200,
                  valid |-> /\ all_valid
                            /\ IF backend = "openvoice"
                               THEN total_speech_duration >= min_speech_required
                               ELSE total_duration >= min_duration,
                  files |-> results,
                  total_duration |-> total_duration,
                  total_speech_duration |-> total_speech_duration]
    /\ UNCHANGED <<audio_files, combined, checked, grammar_words, writer, jobVars, recVars, synVars>>

NotPrepared == [raised |-> FALSE, parts |-> <<>>, max |-> 0, duration |-> -1]

\* the prepare step of the job body on the profile's samples
prepare ==
    /\ audio_files # <<>>
    /\ combined = NotPrepared
    /\ combined' = Trimmed(prepare_audio(audio_files))
    /\ checked' = IF combined'.raised THEN "load_error" ELSE checked
    /\ UNCHANGED <<audio_files, validation_result, grammar_words, writer, jobVars, recVars, synVars>>

\* the check of the job body on the clip the prepare step wrote
check ==
    /\ combined # NotPrepared
    /\ checked = "none"
    /\ checked' = check_audio(combined)
    /\ UNCHANGED <<audio_files, combined, validation_result, grammar_words, writer, jobVars, recVars, synVars>>

NextAudio ==
    \/ validate_audio
    \/ prepare
    \/ check

\* ------------------------------------------------------------ specifications
\* no synthesis request
InitSyn ==
    /\ outputs = 0
    /\ input_text = <<>>
    /\ max_chars = MaxChars
    /\ long = IdleLong

\* no audio handed in
InitAud ==
    /\ audio_files = <<>>
    /\ combined = NotPrepared
    /\ checked = "none"
    /\ validation_result = NoValidation

\* no update_profile call is under way
NoWriter == [job |-> 0, changes |-> <<>>, todo |-> <<>>]

\* writes of profiles.json succeed; no grammar request is looked at, no
\* update is under way
Reliable == write_errors = FALSE /\ grammar_words = <<>> /\ writer = NoWriter

Init == InitJobs /\ Reliable /\ InitRec /\ is_initialized = FALSE /\ InitSyn /\ InitAud

\* the profile service
Spec == Init /\ [][NextJobs]_vars

\* the profile service with every started job thread scheduled fairly
FairSpec == Init /\ [][NextJobs]_vars /\ \A j \in JobIds : WF_vars(JobStep(j))

\* the recognition service (the profile service idle beside it)
RecInit == InitJobs /\ Reliable /\ InitRec /\ backend = "openvoice" /\ InitSyn /\ InitAud

SpecRec == RecInit /\ [][NextRec]_vars

\* a step of consumer thread w
WorkerStep(w) ==
    \/ worker_create(w)
    \/ worker_poll(w)
    \/ worker_recognize(w)
    \/ worker_finally(w)

\* the recognition service with every consumer thread scheduled fairly and
\* every recognizer call returning
FairRec == RecInit /\ [][NextRec]_vars /\ \A w \in WorkerIds : WF_vars(WorkerStep(w))

\* words of grammar requests
RawWords == {"Apple", " apple", "The", " ", "Bee ", "sea"}

GrammarRequests == UNION {[1..n -> RawWords] : n \in 0..MaxWords}

\* POST /grammar with the words looked at
grammar_request == set_grammar_endpoint(grammar_words)

NextGrammar == grammar_request

GrammarInit ==
    /\ InitJobs /\ write_errors = FALSE /\ backend = "openvoice"
    /\ InitRec
    /\ InitSyn
    /\ InitAud
    /\ grammar_words \in GrammarRequests
    /\ writer = NoWriter

SpecGrammar == GrammarInit /\ [][NextGrammar]_vars

\* the profile store with restarts, on storage that can fail a write
NextStore ==
    \/ \E s \in SampleLists : create_profile(s)
    \/ \E p \in ProfileIds : delete_profile(p)
    \/ \E p \in ProfileIds, s \in SampleLists : update_profile_samples(p, s)
    \/ restart

StoreInit == InitJobs /\ write_errors = TRUE /\ grammar_words = <<>> /\ writer = NoWriter /\ InitRec /\ is_initialized = FALSE /\ InitSyn /\ InitAud

SpecStore == StoreInit /\ [][NextStore]_vars

\* the keyword arguments of the update_profile calls, in the order in which
\* every call site gives them (kwargs keeps the order of the call)
FieldOrder == <<"audio_samples", "state", "artifact", "error", "progress">>

Kwargs(changes) == SelectSeq(FieldOrder, LAMBDA f : f \in DOMAIN changes)

\* the last update of a job body (Ready, or Failed in the except clause)
\* enters update_profile: it takes the store lock and looks the profile up.
\* openvoice writes the embedding file before it.
update_enter(j) ==
    /\ writer = NoWriter
    /\ jobs[j].pc \in {"save", "except"}
    /\ LET p == jobs[j].pid
           changes == IF jobs[j].pc = "save" THEN ReadyChanges(p)
                      ELSE FailedChanges(jobs[j].err)
           entered == [job |-> j, changes |-> changes,
                       todo |-> IF p \in DOMAIN profiles THEN Kwargs(changes) ELSE <<>>]
       IN  IF jobs[j].pc = "save" /\ backend = "openvoice"
           THEN /\ dirs' = dirs \cup {p}
                /\ \E saved \in BOOLEAN :
                    IF saved
                    THEN /\ files' = files \cup {ArtifactPath(p)}
                         /\ writer' = entered
                         /\ UNCHANGED jobs
                    ELSE /\ Raise(j, "save_error")
                         /\ UNCHANGED <<files, writer>>
           ELSE /\ writer' = entered
                /\ UNCHANGED <<dirs, files, jobs>>
    /\ UNCHANGED <<backend, write_errors, profiles, profiles_file, save_error, next_id, current_task, njobs, model_initialized, response, calls, recVars, synVars, audio_files, combined, checked, validation_result, grammar_words>>

\* for key, value in kwargs.items(): setattr(profile, key, value), one field
update_setattr ==
    /\ writer # NoWriter
    /\ writer.todo # <<>>
    /\ LET key == Head(writer.todo)
       IN  profiles' = update_profile(profiles, jobs[writer.job].pid,
                                      [f \in {key} |-> writer.changes[f]])
    /\ writer' = [writer EXCEPT !.todo = Tail(writer.todo)]
    /\ UNCHANGED <<backend, write_errors, profiles_file, save_error, next_id, current_task, jobs, njobs, model_initialized, dirs, files, response, calls, recVars, synVars, audio_files, combined, checked, validation_result, grammar_words>>

\* the fields are set: _save_profiles, and the lock is released
update_leave ==
    /\ writer # NoWriter
    /\ writer.todo = <<>>
    /\ IF jobs[writer.job].pid \in DOMAIN profiles
       THEN save_profiles(profiles)
       ELSE UNCHANGED <<profiles_file, save_error>>
    /\ Goto(writer.job, "finally")
    /\ writer' = NoWriter
    /\ UNCHANGED <<backend, write_errors, profiles, next_id, current_task, njobs, model_initialized, dirs, files, response, calls, recVars, synVars, audio_files, combined, checked, validation_result, grammar_words>>

\* GET /profiles/<id> -> VoiceProfileStore.get_profile: no lock is taken,
\* the fields are read as they are
get_profile(p) ==
    /\ Call
    /\ p \in DOMAIN profiles
    /\ response' = [op |-> "get_profile", ok |-> TRUE, msg |-> "found",
                    profile |-> profiles[p]]
    /\ UNCHANGED <<backend, write_errors, profiles, profiles_file, save_error, next_id, current_task, jobs, njobs, model_initialized, dirs, files, recVars, synVars, callVars>>

\* the steps of a job body that go on while another thread holds the store lock
LockFree(j) == jobs[j].pc = "finally" \/ (backend = "openvoice" /\ jobs[j].pc = "prepare")

\* the profile service with the fields of the last update of a job set one
\* by one, as a reader that takes no lock finds them
NextFields ==
    \/ writer = NoWriter /\ \E s \in SampleLists : create_profile(s)
    \/ \E p \in ProfileIds, started \in BOOLEAN : train_profile(p, started)
    \/ \E j \in JobIds :
        /\ jobs[j].pc \notin {"save", "except"}
        /\ writer = NoWriter \/ LockFree(j)
        /\ JobStep(j)
    \/ \E j \in JobIds : update_enter(j)
    \/ update_setattr
    \/ update_leave
    \/ \E p \in ProfileIds : get_profile(p)

SpecFields == Init /\ [][NextFields]_vars

\* the profile service with its jobs, stopped and started again at any time
NextRestart ==
    \/ NextJobs
    \/ restart

SpecRestart == Init /\ [][NextRestart]_vars

\* the profile service with single-shot synthesis requests
SpecOne == Init /\ [][NextOne]_vars

\* a synthesize_long call on a text
LongInit ==
    /\ InitJobs /\ Reliable /\ backend = "openvoice"
    /\ InitRec /\ is_initialized = FALSE
    /\ outputs = 0
    /\ input_text \in Texts
    /\ max_chars \in ChunkLimits
    /\ long = IdleLong
    /\ InitAud

SpecLong == LongInit /\ [][NextLong]_vars

\* the audio pipeline of either service on a batch of files
AudioInit ==
    /\ InitJobs /\ Reliable
    /\ InitRec /\ is_initialized = FALSE
    /\ InitSyn
    /\ audio_files \in Batches
    /\ combined = NotPrepared
    /\ checked = "none"
    /\ validation_result = NoValidation

SpecAudio == AudioInit /\ [][NextAudio]_vars

\* ------------------------------------------------------------------- claims
RunningJobs == {j \in JobIds : Running(j)}

Exists(p) == p \in DOMAIN profiles

\* job j takes a step of its body
Steps(j) == Running(j) /\ jobs'[j] # jobs[j]

\* C1: at most one job body runs at any time, and while it runs the slot
\* holds exactly the profile id it was accepted for.
C1_SingleFlight ==
    /\ Cardinality(RunningJobs) <= 1
    /\ \A j \in RunningJobs : current_task = jobs[j].pid /\ current_task # None

\* a second start was rejected while a job body was in progress
C1_Witness ==
    /\ response.msg = "busy"
    /\ \E j \in RunningJobs : jobs[j].pc = "validate"

\* C2 (as claimed): the slot is never left occupied without a live job thread
\* for it: every accepted job clears it at its end, and a thread that failed
\* to start does not leave it occupied.
C2_SlotNeverLeaked ==
    current_task # None => \E j \in RunningJobs : jobs[j].pid = current_task

\* C3: a start request made while the slot is occupied answers busy and
\* changes neither the slot, nor any profile record, nor any job thread.
C3_BusyChangesNothing ==
    [][(current_task # None /\ \E p \in DOMAIN profiles, st \in BOOLEAN : train_profile(p, st))
        => /\ response' = [op |-> "train", ok |-> FALSE, msg |-> "busy"]
           /\ UNCHANGED <<current_task, profiles, jobs, njobs, dirs, files>>]_vars

\* busy was answered while the running job's profile was mid-run
C3_Witness ==
    /\ response.msg = "busy"
    /\ \E j \in RunningJobs :
         /\ Exists(jobs[j].pid)
         /\ profiles[jobs[j].pid].state = PROCESSING
         /\ profiles[jobs[j].pid].progress = 50

\* C4 (as claimed): a profile is Ready exactly when its artifact path is set
\* and names an existing file.
C4_ReadyIffArtifact ==
    \A p \in DOMAIN profiles :
        (profiles[p].state = READY)
            <=> (profiles[p].artifact # None /\ profiles[p].artifact \in files)

\* C5 (as claimed): a profile is Failed exactly when its error message is set.
C5_FailedIffError ==
    \A p \in DOMAIN profiles :
        (profiles[p].state = FAILED) <=> (profiles[p].error # NoError)

\* C6 (as claimed): the first update of a job resets progress to 0, and no
\* later step lowers it while the job is on its way to the terminal state.
C6_ResetToZeroThenMonotone ==
    [][\A j \in JobIds :
        (Steps(j) /\ Exists(jobs[j].pid) /\ jobs[j].pid \in DOMAIN profiles')
        => /\ jobs[j].pc = "begin" => profiles'[jobs[j].pid].progress = 0
           /\ jobs[j].pc \notin {"begin", "except"} =>
                profiles'[jobs[j].pid].progress >= profiles[jobs[j].pid].progress]_vars

\* C6 (amended): the first update of a job sets progress to 10, and no later
\* update made by the job lowers it, up to the terminal update (Ready with
\* 100; the except update alone resets it to 0).
C6_SetToTenThenMonotone ==
    [][\A j \in JobIds :
        (Steps(j) /\ Exists(jobs[j].pid) /\ jobs[j].pid \in DOMAIN profiles')
        => /\ jobs[j].pc = "begin" => profiles'[jobs[j].pid].progress = 10
           /\ jobs[j].pc \notin {"begin", "except"} =>
                profiles'[jobs[j].pid].progress >= profiles[jobs[j].pid].progress
           /\ jobs[j].pc = "except" => profiles'[jobs[j].pid].progress = 0]_vars

\* a profile that was Ready before (artifact set) is being re-run and has
\* reached the validation step
C6_Witness ==
    \E j \in RunningJobs :
        /\ Exists(jobs[j].pid)
        /\ jobs[j].pc = "save"
        /\ profiles[jobs[j].pid].artifact # None
        /\ profiles[jobs[j].pid].progress = 80

\* C7: when a stage of the job body has raised, the except update leaves the
\* job's profile Failed with the exception text as error and progress 0, and
\* the response the caller of startJob got is not touched.
C7_FailureRecorded ==
    [][\A j \in JobIds :
        (Steps(j) /\ jobs[j].pc = "except")
        => /\ jobs[j].err # NoError
           /\ response' = response
           /\ jobs'[j].pc = "finally"
           /\ Exists(jobs[j].pid) =>
                /\ jobs[j].pid \in DOMAIN profiles'
                /\ profiles'[jobs[j].pid].state = FAILED
                /\ profiles'[jobs[j].pid].error = jobs[j].err
                /\ profiles'[jobs[j].pid].progress = 0]_vars

\* a job whose validation raised has recorded the failure; its caller was
\* answered "started"
C7_Witness ==
    \E j \in RunningJobs :
        /\ jobs[j].pc = "finally"
        /\ jobs[j].err = "silent"
        /\ Exists(jobs[j].pid)
        /\ profiles[jobs[j].pid].state = FAILED
        /\ profiles[jobs[j].pid].error = "silent"
        /\ profiles[jobs[j].pid].progress = 0
        /\ response = [op |-> "train", ok |-> TRUE, msg |-> "started"]

\* profiles of the running job threads (at most one, by C1)
RunningPids == {jobs[j].pid : j \in RunningJobs}

\* C8: every started job ends and frees the slot, and the profile that the
\* running job has put in Processing becomes Ready or Failed while that job
\* runs (as long as it is not deleted meanwhile): no job stays in Processing
\* forever.
C8_JobsTerminate ==
    /\ (RunningJobs # {}) ~> (RunningJobs = {} /\ current_task = None)
    /\ (\E p \in RunningPids : Exists(p) /\ profiles[p].state = PROCESSING)
          ~> (\E p \in RunningPids : ~Exists(p) \/ profiles[p].state \in {READY, FAILED})

\* a job has run to its end on a profile that is now Ready, slot free
C8_Witness ==
    /\ current_task = None
    /\ \E j \in JobIds : jobs[j].pc = "done"
    /\ \E p \in DOMAIN profiles : profiles[p].state = READY /\ profiles[p].progress = 100

Kinds(entries) == [i \in 1..Len(entries) |-> entries[i].type]

Last(entries) == entries[Len(entries)]

\* C9 (as claimed): after the updates partial, partial, final since start
\* (no read in between) the buffer holds one entry, the final.
C9_OnlyTheFinalRemains ==
    Kinds(updates) = <<"partial", "partial", "final">>
        => Len(latest_results) = 1 /\ latest_results[1].type = "final"

\* C9 (amended): after the updates partial, partial, final (each with text,
\* no read in between) the buffer holds two entries: one partial carrying the
\* second partial's text, then the final.
C9_CoalescedPartialThenFinal ==
    Kinds(updates) = <<"partial", "partial", "final">>
        => latest_results = <<updates[2], updates[3]>>

\* the three updates have been applied
C9_Witness ==
    /\ Kinds(updates) = <<"partial", "partial", "final">>
    /\ latest_results # <<>>

\* C10 (as claimed): a read returns the whole buffer in order and leaves
\* exactly the trailing partial when the session is Listening and the last
\* entry is a partial, and nothing in every other case.
C10_ReadKeepsOnlyLiveTrailingPartial ==
    [][get_results =>
        /\ returned' = latest_results
        /\ latest_results' =
             IF is_recognizing /\ latest_results # <<>> /\ Last(latest_results).type = "partial"
             THEN <<Last(latest_results)>>
             ELSE <<>>]_vars

\* consumer threads in their loop, taking chunks from the queue
DrainingWorkers == {w \in WorkerIds : workers[w].pc \in {"loop", "recognize"}}

\* chunks in the session: queued, held by a consumer, or the source of a
\* buffer entry (an entry's text is the number of its chunk)
ChunksIn(queue, ws, results) ==
    (Range(queue) \cup {ws[w].chunk : w \in WorkerIds}
        \cup {results[i].text : i \in 1..Len(results)}) \ {0}

\* C11: a chunk pushed while the session is Idle is dropped: the push leaves
\* the chunk queue, the result buffer and the consumers as they were, and
\* since a chunk enters the session only by a push made while Listening (no
\* other step brings a chunk into the queue, to a recognizer or into the
\* buffer), the dropped chunk is never fed, whatever start calls follow.
C11_IdlePushDropped ==
    [][/\ (receive_audio /\ ~is_recognizing)
            => UNCHANGED <<audio_queue, latest_results, workers>>
       /\ ChunksIn(audio_queue', workers', latest_results')
            \subseteq ChunksIn(audio_queue, workers, latest_results)
                 \cup (IF is_recognizing /\ pushed' # pushed THEN {pushed'} ELSE {})]_vars

\* a chunk was pushed while no consumer had yet set the session to Listening
\* (the only consumer ever started is still building its recognizer): the
\* chunk is not in the queue of the session that has been started
C11_Witness ==
    /\ pushed = 1
    /\ nworkers = 1
    /\ workers[1].pc = "created"
    /\ ~is_recognizing
    /\ audio_queue = <<>>

\* a start call has spawned a consumer and no stop call has been made since
\* (only stop sets the cancellation flag, only a start that spawns clears it)
StartedNotStopped == nworkers > 0 /\ ~stop_recognition_event

\* C12 (as claimed): a start that succeeds from Idle leaves the session
\* Listening with an empty buffer, and every chunk pushed after it and before
\* any stop is enqueued.
C12_ListeningWhenStartReturns ==
    [][/\ (~is_recognizing /\ \E u, g \in BOOLEAN, ws \in WordLists : start_recognition(u, g, ws))
            => is_recognizing' /\ latest_results' = <<>>
       /\ (StartedNotStopped /\ receive_audio)
            => audio_queue' = Append(audio_queue, pushed')]_vars

\* C13 (as claimed): a start request made while the session is Listening
\* changes nothing: no consumer is spawned, and buffer, queue, cancellation
\* flag and grammar stay as they are, whatever the request carries.
C13_StartWhileListeningIsNoOp ==
    [][(is_recognizing /\ \E u, g \in BOOLEAN, ws \in WordLists : start_recognition(u, g, ws))
        => UNCHANGED <<workers, nworkers, latest_results, audio_queue,
                       stop_recognition_event, current_grammar, is_recognizing>>]_vars

\* C14 (as claimed): at most one consumer thread is alive and taking chunks
\* from the queue at any time.
C14_OneConsumer == Cardinality(DrainingWorkers) <= 1

\* C15 (as claimed): once stop has returned the session state is Idle and
\* stays Idle until the next start call (the cancellation flag is set from
\* the stop call until a start call spawns a consumer).
C15_IdleAfterStop == stop_recognition_event => ~is_recognizing

\* C16 (as claimed): the recognizer of a session is built with the grammar
\* that was in force when its start call returned; a setGrammar call made
\* after that does not change it.
C16_GrammarFixedAtStart ==
    [][\A w \in WorkerIds :
        (workers[w].pc = "created" /\ workers'[w].pc = "loop")
            => workers'[w].grammar = workers[w].at_start]_vars

\* audio of the chunks whose outcome is "ok", in chunk order from chunk k on,
\* each followed by one silence
RECURSIVE SuccessfulAudio(_, _)
SuccessfulAudio(outcomes, k) ==
    IF k > Len(outcomes) THEN <<>>
    ELSE (IF outcomes[k] = "ok" THEN <<k, SILENCE>> ELSE <<>>)
            \o SuccessfulAudio(outcomes, k + 1)

\* C17 (as claimed): a synthesizeLong call over n > 1 chunks of which at
\* least one succeeded returns a result, with chunk count n and with the audio
\* of exactly the successful chunks in order, each followed by one silence.
C17_LongResultOfSuccessfulChunks ==
    (long.pc = "done" /\ Len(long.chunks) > 1 /\ "ok" \in Range(long.outcomes))
        => /\ long.result.ok
           /\ long.result.chunks = Len(long.chunks)
           /\ long.result.audio = SuccessfulAudio(long.outcomes, 1)

\* C18 (as claimed): synthesizeLong returns an error exactly when no chunk
\* was synthesized successfully.
C18_ErrorIffNoChunkSucceeded ==
    long.pc = "done" => (~long.result.ok <=> "ok" \notin Range(long.outcomes))

\* C19: a synthesize call yields audio only for a profile that exists, is
\* Ready and has its artifact file; for any other profile it fails and writes
\* no output file; and it never changes a profile record or the job slot.
C19_SynthesizeNeedsReadyProfile ==
    [][\A p \in ProfileIds :
        synthesize(p)
        => /\ response'.ok =>
                /\ p \in DOMAIN profiles
                /\ profiles[p].state = READY
                /\ profiles[p].artifact # None /\ profiles[p].artifact \in files
           /\ ~(/\ p \in DOMAIN profiles
                /\ profiles[p].state = READY
                /\ profiles[p].artifact # None /\ profiles[p].artifact \in files)
                => ~response'.ok /\ outputs' = outputs
           /\ UNCHANGED <<profiles, current_task>>]_vars

\* audio was synthesized for a Ready profile, and a later request failed
C19_Witness ==
    /\ outputs = 1
    /\ response = SynthesisFailed
    /\ \E p \in DOMAIN profiles : profiles[p].state = READY

\* split_into_sentences of every chunk, concatenated in chunk order
RECURSIVE Resplit(_)
Resplit(chunks) ==
    IF chunks = <<>> THEN <<>>
    ELSE split_into_sentences(Head(chunks)) \o Resplit(Tail(chunks))

\* C20: splitting every chunk of chunk(text, maxChars) into sentences and
\* concatenating the results in chunk order gives splitSentences(text).
C20_ChunksKeepTheSentences ==
    long.pc # "idle" => Resplit(long.chunks) = split_into_sentences(input_text)

\* a text of three sentences was packed into two chunks, the first of them
\* holding two sentences
C20_Witness ==
    /\ long.pc = "loop"
    /\ Len(long.chunks) = 2
    /\ Len(split_into_sentences(long.chunks[1])) = 2
    /\ Len(split_into_sentences(input_text)) = 3

\* C21: every chunk that holds more than one sentence is at most maxChars
\* long; a sentence longer than maxChars is a chunk by itself; and a sentence
\* starts a new chunk only when appending it to the chunk before, with one
\* separating space, would exceed maxChars.
C21_GreedyPacking ==
    (long.pc # "idle" /\ split_into_sentences(input_text) # <<>>)
    => /\ \A k \in 1..Len(long.chunks) :
            LET sentences == split_into_sentences(long.chunks[k])
            IN  /\ Len(sentences) > 1 => Len(long.chunks[k]) <= max_chars
                /\ \A n \in 1..Len(sentences) :
                      Len(sentences[n]) > max_chars => long.chunks[k] = sentences[n]
       /\ \A k \in 1..(Len(long.chunks) - 1) :
            Len(long.chunks[k]) + 1 + Len(split_into_sentences(long.chunks[k + 1])[1])
                > max_chars

\* two sentences fill a chunk up to the limit and the third sentence, which
\* no longer fits, starts the next chunk
C21_Witness ==
    /\ long.pc = "loop"
    /\ max_chars = 3
    /\ Len(long.chunks) = 2
    /\ Len(long.chunks[1]) = max_chars
    /\ Len(split_into_sentences(long.chunks[1])) = 2
    /\ Len(long.chunks[2]) = 2

\* files of the batch that load
Loading == {i \in 1..Len(audio_files) : audio_files[i].loads}

\* the files joined into the combined clip
Joined == {combined.parts[k] : k \in 1..Len(combined.parts)} \ {GAP}

\* C22: the prepare step does not raise when at least one of the files
\* loads, whether one file or several are given, and the combined clip then
\* holds exactly the files that load (the others are skipped); when no file
\* loads the job fails: the prepare step raises, or the check of the clip does.
C22_CombineSkipsUnloadable ==
    /\ (combined # NotPrepared /\ Loading # {})
            => ~combined.raised /\ Joined = Loading
    /\ (checked # "none" /\ Loading = {}) => checked # "ok"

C22_Witness ==
    /\ Len(audio_files) = 2
    /\ Loading = {2}
    /\ ~combined.raised
    /\ Joined = {2}
    /\ checked = "ok"

\* C23: a clip is rejected exactly when its peak amplitude is zero or it is
\* shorter than 3 s, by the job body (the combined clip) and by the
\* pre-flight validator (each file that loads); quiet audio is not rejected.
C23_RejectsSilentOrShort ==
    /\ checked \in {"ok", "silent", "too_short"}
            => (checked # "ok"
                    <=> combined.max = 0 \/ combined.duration < MIN_DURATION)
    /\ \A i \in 1..Len(validation_result.files) :
            audio_files[i].loads
            => (~validation_result.files[i].valid
                    <=> audio_files[i].max = 0 \/ audio_files[i].duration < MIN_DURATION)

\* estimateSpeechDuration: what voice-activity detection finds, 70% of the
\* duration when the detector fails
SpeechOf(f) == IF f.speech = VadError THEN (f.duration * 7) \div 10 ELSE f.speech

RECURSIVE SpeechOfValid(_, _)
SpeechOfValid(paths, results) ==
    IF results = <<>> THEN 0
    ELSE (IF Head(results).valid THEN SpeechOf(Head(paths)) ELSE 0)
         + SpeechOfValid(Tail(paths), Tail(results))

\* C24: the response has a result for every path, the totals are those of
\* the valid files, and the batch is valid if and only if every file is valid
\* and the speech in them adds up to at least 5 s.
C24_BatchValidIff ==
    validation_result.status = 200
    => LET results == validation_result.files
       IN  /\ Len(results) = Len(audio_files)
           /\ validation_result.total_duration = SumValid(results, "duration")
           /\ validation_result.valid
                <=> /\ \A i \in 1..Len(results) : results[i].valid
                    /\ SpeechOfValid(audio_files, results) >= min_speech_required

\* a create, update or delete of the store returns
StoreCallReturns ==
    /\ calls' # calls
    /\ response'.op \in {"create", "samples", "delete"}
    /\ response'.ok

\* the file never holds a profile set other than the one in memory at the
\* moment it is written
FileFollowsMemory ==
    (profiles_file' # profiles_file /\ profiles_file'.readable)
        => profiles_file'.profiles = profiles'

C26_RestartLoadsLastWrite ==
    [][/\ (calls' # calls /\ save_error')
            => load_profiles(profiles_file') = load_profiles(profiles_file)
       /\ (calls' # calls /\ response'.op = "restart")
            => profiles' = load_profiles(profiles_file)]_vars

\* C27: delete of an existing profile returns true and removes the record,
\* the artifact file and the profile directory, and nothing of any other
\* profile; delete of an absent id returns false and changes nothing in
\* memory, on disk or in profiles.json.
C27_DeleteRemovesAll ==
    [][\A p \in ProfileIds :
        delete_profile(p)
        => IF p \in DOMAIN profiles
           THEN /\ response'.ok
                /\ p \notin DOMAIN profiles'
                /\ p \notin dirs'
                /\ ArtifactPath(p) \notin files'
                /\ profiles[p].artifact \notin files'
                /\ \A q \in DOMAIN profiles \ {p} :
                        q \in DOMAIN profiles' /\ profiles'[q] = profiles[q]
                /\ DOMAIN profiles' \subseteq DOMAIN profiles
                /\ dirs \ {p} \subseteq dirs'
                /\ files \ {ArtifactPath(p)} \subseteq files'
           ELSE /\ ~response'.ok
                /\ UNCHANGED <<profiles, dirs, files, profiles_file>>]_vars

C27_Witness ==
    /\ response.op = "delete"
    /\ response.ok
    /\ njobs = 1
    /\ jobs[1].pc = "done"
    /\ DOMAIN profiles = {2}
    /\ profiles[2].state = PENDING
    /\ dirs = {}
    /\ files = {}

\* the same word but for case and surrounding blanks
SameWord(a, b) == Lowered(a) = Lowered(b)

NonBlank(words) == {w \in Range(words) : ~SameWord(w, " ")}

\* C28: after a grammar request with words, the grammar holds every filler
\* and every word of the caller, nothing else, and no word twice (words that
\* differ in case or surrounding blanks only are one word); after a request
\* without words the grammar is cleared.
C28_GrammarIsUnionWithFillers ==
    requests > 0
    => IF grammar_words # <<>>
       THEN LET grammar == DOMAIN current_grammar
            IN  /\ Fillers \subseteq grammar
                /\ \A w \in NonBlank(grammar_words) : \E g \in grammar : SameWord(g, w)
                /\ \A g \in grammar \ Fillers :
                        \E w \in NonBlank(grammar_words) : SameWord(g, w)
                /\ \A g \in grammar : current_grammar[g] = 1
                /\ \A g, h \in grammar : SameWord(g, h) => g = h
       ELSE current_grammar = NoGrammar

C28_Witness ==
    /\ requests > 0
    /\ grammar_words = <<"Apple", "The", " apple">>
    /\ DOMAIN current_grammar = Fillers \cup {"apple"}

Finals(entries) == SelectSeq(entries, LAMBDA r : r.type = "final")

\* the consumer applies an update of the given kind to the buffer
UpdateOf(kind) ==
    /\ Len(updates') = Len(updates) + 1
    /\ Last(updates').type = kind

\* C29: no two partial entries are adjacent in the buffer; a partial update
\* overwrites the trailing partial or is appended, and leaves every final in
\* place; a final update makes the buffer one entry longer, the final last.
C29_BufferCoalescing ==
    /\ [](\A i \in 1..(Len(latest_results) - 1) :
            ~(latest_results[i].type = "partial" /\ latest_results[i + 1].type = "partial"))
    /\ [][/\ UpdateOf("partial")
            => /\ Last(latest_results') = Last(updates')
               /\ Len(latest_results') =
                    IF latest_results # <<>> /\ Last(latest_results).type = "partial"
                    THEN Len(latest_results) ELSE Len(latest_results) + 1
               /\ \A i \in 1..(Len(latest_results') - 1) :
                    latest_results'[i] = latest_results[i]
          /\ UpdateOf("final")
            => latest_results' = Append(latest_results, Last(updates'))]_vars

C29_Witness ==
    /\ Kinds(updates) = <<"final", "partial", "partial">>
    /\ Kinds(latest_results) = <<"final", "partial">>
    /\ latest_results[2] = updates[3]

\* C30: a read returns every final in the buffer, in buffer order, and leaves
\* none behind to be returned again; and a partial that a read returned in
\* front of a final is not returned by the next read.
C30_FinalsOnceInOrder ==
    [][get_results
        => /\ Finals(returned') = Finals(latest_results)
           /\ Finals(latest_results') = <<>>
           /\ \A i, j \in 1..Len(returned) :
                (i < j /\ returned[i].type = "partial" /\ returned[j].type = "final")
                => \A k \in 1..Len(returned') : returned'[k] # returned[i]]_vars

\* consumer threads that have been started and have not ended
LiveWorkers == {w \in WorkerIds : workers[w].pc \in {"created", "loop", "recognize", "finally"}}

\* C31: a consumer thread that is alive when stop has been called ends, also
\* when start is called again afterwards.
C31_StoppedConsumersExit ==
    \A w \in WorkerIds :
        (stop_recognition_event /\ w \in LiveWorkers) ~> (workers[w].pc = "done")

\* consecutive progress values of a job that succeeds
ProgressOrder == {<<10, 30>>, <<30, 50>>, <<50, 80>>, <<80, 100>>}

\* C32: a job raises the progress of its profile through 10, 30, 50, 80, 100
\* and skips none: 10 with the Processing state in its first update, 50 in
\* the step that passes the validation, 80 once the artifact is derived, 100
\* together with Ready and the artifact path. (Steps that start from a value
\* a client call has put in between are left out.)
C32_ProgressSequence ==
    [][\A j \in JobIds :
        LET p == jobs[j].pid
        IN  (/\ Steps(j) /\ Exists(p) /\ p \in DOMAIN profiles'
             /\ profiles'[p].progress \notin {profiles[p].progress, 0})
            => LET before == profiles[p].progress
                   after == profiles'[p].progress
               IN  /\ after = 10
                        => jobs[j].pc = "begin" /\ profiles'[p].state = PROCESSING
                   /\ (after # 10 /\ before \in {10, 30, 50, 80})
                        => <<before, after>> \in ProgressOrder
                   /\ after = 50 => jobs[j].pc = "validate"
                   /\ after = 80
                        => \/ backend = "openvoice" /\ jobs[j].pc = "extract"
                           \/ backend = "xtts" /\ ArtifactPath(p) \in files
                   /\ after = 100
                        => /\ profiles'[p].state = READY
                           /\ profiles'[p].artifact = ArtifactPath(p)]_vars

\* jobs whose extraction step has run
Extracted == {j \in JobIds : jobs[j].attempts # <<>>}

\* C33: the extraction is first called with voice-activity gating; it is
\* called once more, without gating, exactly when the first call failed with
\* the too-short failure; the job fails with the extraction error exactly
\* when the last call failed.
C33_RetryOnlyWhenTooShort ==
    \A j \in Extracted :
        LET made == jobs[j].attempts
        IN  /\ Len(made) \in {1, 2}
            /\ made[1].vad
            /\ Len(made) = 2 <=> made[1].outcome = "too_short"
            /\ Len(made) = 2 => ~made[2].vad
            /\ made[Len(made)].outcome # "ok"
                 <=> jobs[j].pc \in {"except", "finally"} /\ jobs[j].err = "extract_error"

\* witness of C33: a job whose retry without gating gave the embedding, and
\* that has gone on to save it
C33_Witness ==
    \E j \in Extracted :
        /\ Len(jobs[j].attempts) = 2
        /\ jobs[j].attempts[2].outcome = "ok"
        /\ jobs[j].pc = "finally"
        /\ jobs[j].err = NoError

RECURSIVE GapsBetween(_, _, _)
\* the files that load, in the order of the list, a gap between each two
GapsBetween(paths, i, parts) ==
    IF i > Len(paths) THEN parts
    ELSE GapsBetween(paths, i + 1,
            IF paths[i].loads
            THEN (IF parts # <<>> THEN Append(parts, GAP) ELSE parts) \o <<i>>
            ELSE parts)

RECURSIVE SumDurations(_, _)
SumDurations(paths, among) ==
    IF among = {} THEN 0
    ELSE LET i == CHOOSE x \in among : TRUE
         IN  paths[i].duration + SumDurations(paths, among \ {i})

\* C34: of several files of which k >= 1 load, the combined clip is the k
\* clips in the order of the list with one gap between each two and none in
\* front or behind; it lasts the sum of the k clips plus k - 1 gaps.
C34_GapsOnlyBetween ==
    (combined # NotPrepared /\ Len(audio_files) > 1 /\ Loading # {})
        => /\ combined.parts = GapsBetween(audio_files, 1, <<>>)
           /\ combined.duration = SumDurations(audio_files, Loading)
                                    + (Cardinality(Loading) - 1) * SilenceGap

\* C35: a reader that takes no lock never finds a profile Ready with its
\* artifact path unset, nor Failed with its error unset.
C35_ReaderSeesWholeUpdate ==
    response.op = "get_profile"
        => /\ response.profile.state = READY => response.profile.artifact # None
           /\ response.profile.state = FAILED => response.profile.error # NoError

\* the consumer thread of the most recent start is in its loop
LatestInLoop == nworkers > 0 /\ workers[nworkers].pc \in {"loop", "recognize"}

\* C36: the consumer of an earlier session that ends late does not set the
\* flag to false while the consumer of the latest session is in its loop, and
\* the consumer of a session that has been stopped does not set the flag to
\* true when it starts late.
C36_FlagFollowsLatestConsumer ==
    [][\A w \in WorkerIds :
        /\ (/\ workers[w].pc = "finally" /\ workers'[w].pc = "done"
            /\ w # nworkers /\ LatestInLoop)
                => is_recognizing' = is_recognizing
        /\ (/\ workers[w].pc = "created" /\ workers'[w].pc = "loop"
            /\ w = nworkers /\ stop_recognition_event)
                => ~is_recognizing']_vars

\* profiles that have been created and deleted, and that no running job is for
DeletedAndQuiet == {p \in 1..next_id : ~Exists(p) /\ p \notin RunningPids}

\* C37: a job does not create a profile record, and once no job runs for a
\* deleted profile neither its directory nor its artifact file exists.
C37_DeletedLeavesNothing ==
    /\ [](\A p \in DeletedAndQuiet : p \notin dirs /\ ArtifactPath(p) \notin files)
    /\ [][\A j \in JobIds : Steps(j) => DOMAIN profiles' \subseteq DOMAIN profiles]_vars

\* C38: the job step that turns a profile Ready has built the artifact from
\* the sample list the profile holds at that step: the paths the job was
\* started with are the profile's current samples.
C38_ReadyFromCurrentSamples ==
    [][\A j \in JobIds :
        LET p == jobs[j].pid
        IN  (/\ Steps(j) /\ Exists(p) /\ p \in DOMAIN profiles'
             /\ profiles[p].state # READY /\ profiles'[p].state = READY)
            => jobs[j].paths = profiles'[p].audio_samples]_vars

\* C39: a profile is in the Processing/Extracting state only while the job
\* slot holds its id.
C39_ProcessingOnlyInSlot ==
    \A p \in DOMAIN profiles : profiles[p].state = PROCESSING => current_task = p

\* consumer thread w hands the chunk it took from the queue to its recognizer
Feeds(w) == workers[w].pc = "recognize" /\ workers'[w].pc = "loop"

\* C40: a chunk that is fed is held by no other thread and is not in the
\* queue any more; no chunk pushed before it in the same session is still
\* waiting to be fed; and it was not pushed in a session earlier than the
\* one of the thread that feeds it.
C40_ChunksOnceInOrder ==
    [][\A w \in WorkerIds :
        Feeds(w)
        => /\ workers[w].chunk \notin Range(audio_queue)
           /\ \A v \in WorkerIds \ {w} :
                workers[v].pc = "recognize"
                => /\ workers[v].chunk # workers[w].chunk
                   /\ workers[v].session = workers[w].session
                        => workers[v].chunk > workers[w].chunk
           /\ workers[w].session >= w]_vars
====
